---- MODULE Spec2Model ----
(***************************************************************************)
(* A model of YT_notes_generator.py: the playlist enumerator               *)
(* (extract_playlist_items), the transcript fetcher (extract_transcript),  *)
(* the generation routine with retry and model fallback                    *)
(* (generate_with_gemini) and the processing loop over the selected        *)
(* videos.                                                                 *)
(*                                                                         *)
(* Texts are sequences of one-character strings.  An optional value        *)
(* (Python's None or a value) is a sequence of length 0 or 1.              *)
(***************************************************************************)
EXTENDS Integers, Sequences, FiniteSets, TLC

VARIABLES
    \* ---- generate_with_gemini: arguments, locals, result
    g_pc,           \* "idle", "model_loop", "retry_loop", "returned", "raised"
    model_names,    \* argument: the ordered list of model names
    retries,        \* argument: attempts per model
    model_idx,      \* position in model_names of the model of the outer loop (0: none yet)
    attempt,        \* the inner loop's variable
    g_result,       \* the value returned (None or a text)
    \* ---- what the generative service and the clock observe of one call
    calls_to,       \* the position in model_names of every invocation, in order
    last_call,      \* the outcome of the most recent invocation
    kinds_seen,     \* the kinds of outcome seen in this call
    sleep_calls,    \* the number of time.sleep calls of this call
    cur_attempts,   \* invocations made on the current model
    cur_wait,       \* seconds slept for the current model
    cur_delays      \* the delays the errors of the current model carried

genVars == <<g_pc, model_names, retries, model_idx, attempt, g_result,
             calls_to, last_call, kinds_seen, sleep_calls,
             cur_attempts, cur_wait, cur_delays>>

VARIABLES
    \* ---- extract_playlist_items: argument, the listing source, locals, result
    playlist_url,     \* the text the user pasted
    pages,            \* the listing source: its pages, each a sequence of items
    e_pc,             \* "idle", "start", "page_loop", "returned"
    videos,           \* the list being accumulated, then the value returned
    next_page_token,  \* None, or the token of the page to ask for
    requests,         \* the pageToken of every request issued, in order
    e_error           \* whether st.error reported a failure (line 78)

enumVars == <<playlist_url, pages, e_pc, videos, next_page_token, requests, e_error>>

VARIABLES
    \* ---- the script below line 124
    run_pc,           \* where the script is
    throttle_delay,   \* the "API cooldown" slider
    video_items,      \* what extract_playlist_items returned
    selected_videos,
    idx,              \* the loop variable of line 155
    transcript,       \* the transcript of the current video
    cache,            \* st.cache_data of extract_transcript: video id -> result
    all_notes,        \* title -> notes
    all_qas,          \* title -> Q&A
    bundles,          \* the aggregate download buttons rendered (lines 203-209)
    \* ---- what a run does, as an observer records it
    fetched,          \* the transcript of every video processed so far, in order
    gen_calls,        \* the calls of generate_with_gemini: [idx, prompt]
    produced_notes,   \* the non-empty notes generated: [idx, text]
    produced_qas,     \* the non-empty Q&As generated: [idx, text]
    cooldowns         \* the idx after which time.sleep(throttle_delay) ran

runVars == <<run_pc, throttle_delay, video_items, selected_videos, idx, transcript,
             cache, all_notes, all_qas, bundles,
             fetched, gen_calls, produced_notes, produced_qas, cooldowns>>

vars == <<genVars, enumVars, runVars>>

-----------------------------------------------------------------------------
(* Bounds of the model *)

MaxRetries == 3
MaxModels == 2
MaxItems == 2
MaxPages == 2
MaxVideos == 2
SourcePageLen == 1

(* Program constants *)

DefaultRetries == 3
DefaultDelay == 60
DefaultMaxVideos == 10

-----------------------------------------------------------------------------
(* Optional values and texts *)

None == <<>>
Some(x) == <<x>>

IsSpace(c) == c \in {" ", "\n", "\t"}

RECURSIVE LStrip(_)
LStrip(s) == IF s = <<>> \/ ~IsSpace(Head(s)) THEN s ELSE LStrip(Tail(s))

RECURSIVE RStrip(_)
RStrip(s) ==
    IF s = <<>> \/ ~IsSpace(s[Len(s)]) THEN s ELSE RStrip(SubSeq(s, 1, Len(s) - 1))

\* str.strip() with no argument (line 99)
Strip_LeftOnly(s) == LStrip(s)
Strip(s) == RStrip(LStrip(s))

\* int() of the digits the pattern (\d+) matched (line 104)
RECURSIVE ParseInt(_)
ParseInt(digits) ==
    IF digits = <<>> THEN 0
    ELSE 10 * ParseInt(SubSeq(digits, 1, Len(digits) - 1)) + digits[Len(digits)]

RECURSIVE SeqsUpTo(_, _)
SeqsUpTo(S, n) ==
    IF n = 0 THEN {<<>>}
    ELSE LET shorter == SeqsUpTo(S, n - 1)
         IN  shorter \cup {Append(s, x) : s \in {t \in shorter : Len(t) = n - 1}, x \in S}

-----------------------------------------------------------------------------
(* The generative service, as generate_with_gemini sees it *)

DefaultModelNames == <<"gemini-1.5-flash", "gemini-1.5-pro">>

\* The names a caller may pass: a served model, and a name the client library
\* rejects when the model object is constructed.
ArgModelNames == {"gemini-1.5-flash", "no/such/model"}

\* genai.GenerativeModel(model_name) (line 95) raises for a name it rejects.
ConstructorRaises(name) == name \notin {"gemini-1.5-flash", "gemini-1.5-pro"}

\* The response texts of the service.
ResponseTexts == { <<"a">>, <<" ", "b", "\n">>, <<" ">> }

\* str(e) of an exception raised in the try body (lines 98-99), by
\* generate_content or by reading response.text: whether it holds "429", and the
\* digits after "retry_delay { seconds:" when the pattern of line 103 matches.
ErrStrs ==
    { [has429 |-> TRUE,  delay |-> <<2>>],
      [has429 |-> TRUE,  delay |-> <<>>],
      [has429 |-> FALSE, delay |-> <<>>] }

NoErr == [has429 |-> FALSE, delay |-> <<>>]

\* What one execution of the try body (lines 98-99) ends in.
Outcomes ==
    { [ok |-> TRUE, text |-> t, err |-> NoErr] : t \in ResponseTexts }
    \cup { [ok |-> FALSE, text |-> <<>>, err |-> e] : e \in ErrStrs }

\* for attempt in range(retries) (line 96)
RangeHas_Inclusive(i, n) == i <= n
RangeHas(i, n) == i < n

\* "429" in err_str (line 102)
IsRateLimit_Always(e) == TRUE
IsRateLimit(e) == e.has429

\* lines 103-104
DelaySeconds(e) == IF e.delay # <<>> THEN ParseInt(e.delay) ELSE DefaultDelay

NoCall == [kind |-> "none", text |-> <<>>]

\* The kind of an outcome, as the service reports it.
KindOf(o) == IF o.ok THEN "ok" ELSE IF o.err.has429 THEN "rate" ELSE "other"

-----------------------------------------------------------------------------
(* generate_with_gemini, statement by statement (lines 93-110) *)

\* The call: arguments bound, nothing executed yet.
GenEntry(names, n) ==
    /\ g_pc = "model_loop"
    /\ model_names = names
    /\ retries = n
    /\ model_idx = 0
    /\ attempt = 0
    /\ g_result = None
    /\ calls_to = <<>>
    /\ last_call = NoCall
    /\ kinds_seen = {}
    /\ sleep_calls = 0
    /\ cur_attempts = 0
    /\ cur_wait = 0
    /\ cur_delays = {}

\* for model_name in model_names: model = genai.GenerativeModel(model_name)
\* (lines 94-95), and return None once the list is exhausted (line 110).
GenNextModel ==
    /\ g_pc = "model_loop"
    /\ IF model_idx < Len(model_names)
       THEN /\ model_idx' = model_idx + 1
            /\ attempt' = 0
            /\ cur_attempts' = 0
            /\ cur_wait' = 0
            /\ cur_delays' = {}
            /\ g_pc' = IF ConstructorRaises(model_names[model_idx + 1])
                       THEN "raised" ELSE "retry_loop"
            /\ UNCHANGED g_result
       ELSE /\ g_result' = None
            /\ g_pc' = "returned"
            /\ UNCHANGED <<model_idx, attempt, cur_attempts, cur_wait, cur_delays>>
    /\ UNCHANGED <<model_names, retries, calls_to, last_call, kinds_seen, sleep_calls>>
    /\ UNCHANGED <<enumVars, runVars>>

\* One pass of "for attempt in range(retries)" (lines 96-109): the try body and,
\* when it raises, the handler.
GenAttempt ==
    /\ g_pc = "retry_loop"
    /\ IF RangeHas(attempt, retries)
       THEN \E o \in Outcomes :
              /\ calls_to' = Append(calls_to, model_idx)
              /\ last_call' = [kind |-> KindOf(o), text |-> o.text]
              /\ kinds_seen' = kinds_seen \cup {KindOf(o)}
              /\ cur_attempts' = cur_attempts + 1
              /\ IF o.ok
                 THEN \* return response.text.strip()
                      /\ g_result' = Some(Strip(o.text))
                      /\ g_pc' = "returned"
                      /\ UNCHANGED <<attempt, sleep_calls, cur_wait, cur_delays>>
                 ELSE IF IsRateLimit(o.err)
                 THEN \* st.warning, time.sleep(delay_seconds), next attempt
                      /\ sleep_calls' = sleep_calls + 1
                      /\ cur_wait' = cur_wait + DelaySeconds(o.err)
                      /\ cur_delays' = cur_delays \cup {o.err.delay}
                      /\ attempt' = attempt + 1
                      /\ UNCHANGED <<g_pc, g_result>>
                 ELSE \* st.error, break
                      /\ g_pc' = "model_loop"
                      /\ UNCHANGED <<attempt, g_result, sleep_calls, cur_wait, cur_delays>>
       ELSE \* range(retries) is exhausted
            /\ g_pc' = "model_loop"
            /\ UNCHANGED <<attempt, g_result, calls_to, last_call, kinds_seen,
                           sleep_calls, cur_attempts, cur_wait, cur_delays>>
    /\ UNCHANGED <<model_names, retries, model_idx>>
    /\ UNCHANGED <<enumVars, runVars>>

GenNext == GenNextModel \/ GenAttempt

\* What one whole call can end in: the same statements, from call to return, over
\* every outcome of every invocation.  raised: an exception left the routine.
RECURSIVE GenFromModel(_, _, _)
RECURSIVE GenFromAttempt(_, _, _, _)
GenFromModel(names, n, m) ==
    IF m > Len(names) THEN {[raised |-> FALSE, value |-> None]}
    ELSE IF ConstructorRaises(names[m]) THEN {[raised |-> TRUE, value |-> None]}
    ELSE GenFromAttempt(names, n, m, 0)
GenFromAttempt(names, n, m, a) ==
    IF ~RangeHas(a, n) THEN GenFromModel(names, n, m + 1)
    ELSE UNION { IF o.ok THEN {[raised |-> FALSE, value |-> Some(Strip(o.text))]}
                 ELSE IF IsRateLimit(o.err) THEN GenFromAttempt(names, n, m, a + 1)
                 ELSE GenFromModel(names, n, m + 1)
                 : o \in Outcomes }

generate_with_gemini(names, n) == GenFromModel(names, n, 1)

\* generate_with_gemini(prompt, text) as lines 174 and 184 call it
DefaultGeneration == generate_with_gemini(DefaultModelNames, DefaultRetries)

-----------------------------------------------------------------------------
(* get_playlist_id (lines 42-44) *)

Letters ==
    {"a","b","c","d","e","f","g","h","i","j","k","l","m","n","o","p","q","r","s",
     "t","u","v","w","x","y","z","A","B","C","D","E","F","G","H","I","J","K","L",
     "M","N","O","P","Q","R","S","T","U","V","W","X","Y","Z"}
Digits == {"0","1","2","3","4","5","6","7","8","9"}

\* [a-zA-Z0-9_-]
TokenChars == Letters \cup Digits \cup {"_", "-"}

ListKey == <<"l", "i", "s", "t", "=">>

\* the pattern (?:list=)([a-zA-Z0-9_-]+) matches at position i
MatchesAt(url, i) ==
    /\ i + Len(ListKey) <= Len(url)
    /\ SubSeq(url, i, i + Len(ListKey) - 1) = ListKey
    /\ url[i + Len(ListKey)] \in TokenChars

RECURSIVE TokenRun(_, _)
TokenRun(url, i) ==
    IF i <= Len(url) /\ url[i] \in TokenChars
    THEN <<url[i]>> \o TokenRun(url, i + 1) ELSE <<>>

get_playlist_id(url) ==
    LET at == {i \in 1..Len(url) : MatchesAt(url, i)}
    IN  IF at = {} THEN None
        ELSE LET first == CHOOSE i \in at : \A j \in at : i <= j
             IN  Some(TokenRun(url, first + Len(ListKey)))

Urls ==
    { <<"?", "l", "i", "s", "t", "=", "P", "L", "_", "1", "&", "i">>,
      <<"l", "i", "s", "t", "=", "&">>,
      <<"w", "a", "t", "c", "h">>,
      <<>> }

-----------------------------------------------------------------------------
(* The listing source *)

\* A field of an item that item.get() may find missing (None) or empty.
Truthy(field) == field # None /\ field[1] # ""

\* The items a playlist page of the service may hold.
SourceItems ==
    {[videoId |-> v, title |-> t] :
        v \in {None, Some("v1"), Some("v2")}, t \in {None, Some(""), Some("A")}}

\* The items of the playlists the whole script is run on: three videos, two of
\* them with the same title.  A playlist may hold a video more than once.
PlaylistItems ==
    { [videoId |-> Some("v1"), title |-> Some("A")],
      [videoId |-> Some("v2"), title |-> Some("A")],
      [videoId |-> Some("v3"), title |-> Some("B")] }

IsSorted(s) == \A i, j \in 1..Len(s) : i <= j => s[i] <= s[j]

\* items cut into Len(cuts) + 1 pages after the positions cuts
RECURSIVE Paginate(_, _)
Paginate(items, cuts) ==
    IF cuts = <<>> THEN <<items>>
    ELSE <<SubSeq(items, 1, cuts[1])>>
         \o Paginate(SubSeq(items, cuts[1] + 1, Len(items)),
                     [i \in 1..(Len(cuts) - 1) |-> cuts[i + 1] - cuts[1]])

\* items served in pages of size items each
RECURSIVE Chunks(_, _)
Chunks(items, size) ==
    IF Len(items) <= size THEN <<items>>
    ELSE <<SubSeq(items, 1, size)>> \o Chunks(SubSeq(items, size + 1, Len(items)), size)

\* Every source of at most MaxItems items on at most MaxPages pages.
Sources ==
    UNION { {Paginate(items, cuts) :
                cuts \in {c \in SeqsUpTo(0..Len(items), MaxPages - 1) : IsSorted(c)}}
            : items \in SeqsUpTo(SourceItems, MaxItems) }

\* Every playlist of at most MaxVideos well-formed items, served
\* SourcePageLen items a page.
Playlists ==
    {Chunks(items, SourcePageLen) : items \in SeqsUpTo(PlaylistItems, MaxVideos)}

-----------------------------------------------------------------------------
(* extract_playlist_items (lines 47-79) *)

\* if video_id and title (line 69)
KeepItem(item) == Truthy(item.videoId) /\ Truthy(item.title)

\* if not next_page_token: break (lines 73-74)
LastPage_Always(token) == TRUE
LastPage(token) == token = None

\* The response of the service to a request with this pageToken.
Response(src, token) ==
    LET n == IF token = None THEN 1 ELSE token[1]
    IN  [items |-> src[n],
         nextPageToken |-> IF n < Len(src) THEN Some(n + 1) ELSE None]

Entry(item) == [videoId |-> item.videoId[1], title |-> item.title[1]]

RECURSIVE Entries(_)
Entries(items) ==
    IF items = <<>> THEN <<>>
    ELSE (IF KeepItem(Head(items)) THEN <<Entry(Head(items))>> ELSE <<>>)
         \o Entries(Tail(items))

EnumEntry(url, src) ==
    /\ playlist_url = url
    /\ pages = src
    /\ e_pc = "start"
    /\ videos = <<>>
    /\ next_page_token = None
    /\ requests = <<>>
    /\ e_error = FALSE

\* lines 48-55, and lines 77-79 when the URL holds no playlist id
EnumStart ==
    /\ e_pc = "start"
    /\ IF get_playlist_id(playlist_url) = None
       THEN /\ e_error' = TRUE
            /\ e_pc' = "returned"
       ELSE /\ e_pc' = "page_loop"
            /\ UNCHANGED e_error
    /\ videos' = <<>>
    /\ next_page_token' = None
    /\ UNCHANGED <<playlist_url, pages, requests>>
    /\ UNCHANGED <<genVars, runVars>>

\* One pass of "while True" (lines 57-74): a request, its response, the items
\* kept, the token; return videos (line 76) after the last page, and
\* lines 77-79 when the request raises.
EnumPage ==
    /\ e_pc = "page_loop"
    /\ requests' = Append(requests, next_page_token)
    /\ \E raises \in BOOLEAN :
         IF raises
         THEN /\ videos' = <<>>
              /\ e_error' = TRUE
              /\ e_pc' = "returned"
              /\ UNCHANGED next_page_token
         ELSE LET response == Response(pages, next_page_token)
              IN  /\ videos' = videos \o Entries(response.items)
                  /\ next_page_token' = response.nextPageToken
                  /\ e_pc' = IF LastPage(response.nextPageToken)
                             THEN "returned" ELSE "page_loop"
                  /\ UNCHANGED e_error
    /\ UNCHANGED <<playlist_url, pages>>
    /\ UNCHANGED <<genVars, runVars>>

EnumNext == EnumStart \/ EnumPage

-----------------------------------------------------------------------------
(* extract_transcript (lines 81-90) *)

\* " ".join(segments) (line 85)
RECURSIVE Join(_)
Join(segs) ==
    IF segs = <<>> THEN <<>>
    ELSE IF Len(segs) = 1 THEN segs[1]
    ELSE segs[1] \o <<" ">> \o Join(Tail(segs))

\* What YouTubeTranscriptApi.get_transcript ends in: the segments' texts, one of
\* TranscriptsDisabled / NoTranscriptFound, or another exception.
TranscriptOutcomes ==
    { [kind |-> "segments", segs |-> << <<"x">>, <<"y">> >>],
      [kind |-> "segments", segs |-> <<>>],
      [kind |-> "unavailable", segs |-> <<>>],
      [kind |-> "error", segs |-> <<>>] }

extract_transcript(o) == IF o.kind = "segments" THEN Some(Join(o.segs)) ELSE None

\* The values extract_transcript(video_id) may return with this cache.
TranscriptResults(c, video_id) ==
    IF video_id \in DOMAIN c THEN {c[video_id]}
    ELSE {extract_transcript(o) : o \in TranscriptOutcomes}

-----------------------------------------------------------------------------
(* The script (lines 124-210) *)

EmptyDict == [k \in {} |-> <<>>]
Put(d, k, v) == [x \in (DOMAIN d) \cup {k} |-> IF x = k THEN v ELSE d[x]]

NoBundles == [notes |-> None, qas |-> None]

\* The truth value of an optional text: if transcript, if summary, if qas
TruthyText_NotNone(t) == t # None
TruthyText(t) == t # None /\ t[1] # <<>>

Min(a, b) == IF a <= b THEN a ELSE b

\* The sliders of the sidebar (lines 131, 133), a few of their positions.
MaxVideosChoices == {1, 2, DefaultMaxVideos}
ThrottleChoices == {0, 10}

\* The sequences of distinct indices st.multiselect may return (line 146).
IndexChoices(n) ==
    {s \in SeqsUpTo(0..(n - 1), n) : \A i, j \in 1..Len(s) : i # j => s[i] # s[j]}

\* lines 145-149
SelectAll(items, max_videos) == SubSeq(items, 1, Min(max_videos, Len(items)))
SelectManually(items, indices) == [k \in 1..Len(indices) |-> items[indices[k] + 1]]

\* for idx, vid in enumerate(selected_videos) (line 155)
LoopHas_StopsEarly(i, n) == i < n - 1
LoopHas(i, n) == i < n

\* if throttle_delay > 0 and idx < len(selected_videos) - 1 (line 196)
CooldownDue_AfterEvery(throttle, i, n) == throttle > 0 /\ i < n
CooldownDue(throttle, i, n) == throttle > 0 /\ i < n - 1

GenIdle ==
    /\ g_pc = "idle"
    /\ model_names = <<>>
    /\ retries = 0
    /\ model_idx = 0
    /\ attempt = 0
    /\ g_result = None
    /\ calls_to = <<>>
    /\ last_call = NoCall
    /\ kinds_seen = {}
    /\ sleep_calls = 0
    /\ cur_attempts = 0
    /\ cur_wait = 0
    /\ cur_delays = {}

EnumIdle ==
    /\ playlist_url = <<>>
    /\ pages = <<>>
    /\ e_pc = "idle"
    /\ videos = <<>>
    /\ next_page_token = None
    /\ requests = <<>>
    /\ e_error = FALSE

RunEntry(throttle) ==
    /\ run_pc = "begin"
    /\ throttle_delay = throttle
    /\ video_items = <<>>
    /\ selected_videos = <<>>
    /\ idx = 0
    /\ transcript = None
    /\ cache = EmptyDict
    /\ all_notes = EmptyDict
    /\ all_qas = EmptyDict
    /\ bundles = NoBundles
    /\ fetched = <<>>
    /\ gen_calls = {}
    /\ produced_notes = {}
    /\ produced_qas = {}
    /\ cooldowns = {}

RunIdle ==
    /\ run_pc = "idle"
    /\ throttle_delay = 0
    /\ video_items = <<>>
    /\ selected_videos = <<>>
    /\ idx = 0
    /\ transcript = None
    /\ cache = EmptyDict
    /\ all_notes = EmptyDict
    /\ all_qas = EmptyDict
    /\ bundles = NoBundles
    /\ fetched = <<>>
    /\ gen_calls = {}
    /\ produced_notes = {}
    /\ produced_qas = {}
    /\ cooldowns = {}

\* if playlist_url: video_items = extract_playlist_items(playlist_url)
\* (lines 135-137): the call is made; EnumStart and EnumPage execute it.
RunFetchPlaylist ==
    /\ run_pc = "begin"
    /\ IF playlist_url # <<>>
       THEN /\ e_pc' = "start"
            /\ run_pc' = "fetching"
       ELSE /\ run_pc' = "done"
            /\ UNCHANGED e_pc
    /\ UNCHANGED <<playlist_url, pages, videos, next_page_token, requests, e_error>>
    /\ UNCHANGED <<throttle_delay, video_items, selected_videos, idx, transcript,
                   cache, all_notes, all_qas, bundles,
                   fetched, gen_calls, produced_notes, produced_qas, cooldowns>>
    /\ UNCHANGED genVars

\* lines 137-153: the list returned, the selection, the button
RunSelect ==
    /\ run_pc = "fetching"
    /\ e_pc = "returned"
    /\ video_items' = videos
    /\ IF videos = <<>>
       THEN \* "No videos found or invalid playlist."
            /\ run_pc' = "done"
            /\ UNCHANGED selected_videos
       ELSE \E manually \in BOOLEAN, max_videos \in MaxVideosChoices,
               indices \in IndexChoices(Len(videos)), pressed \in BOOLEAN :
              /\ selected_videos' = IF manually THEN SelectManually(videos, indices)
                                    ELSE SelectAll(videos, max_videos)
              /\ run_pc' = IF pressed THEN "loop" ELSE "done"
    /\ idx' = 0
    /\ all_notes' = EmptyDict
    /\ all_qas' = EmptyDict
    /\ UNCHANGED <<throttle_delay, transcript, cache, bundles,
                   fetched, gen_calls, produced_notes, produced_qas, cooldowns>>
    /\ UNCHANGED <<genVars, enumVars>>

\* lines 155-169: the next video, its transcript, and the skip when it has none
RunFetchTranscript ==
    /\ run_pc = "loop"
    /\ LoopHas(idx, Len(selected_videos))
    /\ LET video_id == selected_videos[idx + 1].videoId
       IN  \E t \in TranscriptResults(cache, video_id) :
             /\ transcript' = t
             /\ cache' = Put(cache, video_id, t)
             /\ fetched' = Append(fetched, t)
             /\ IF ~TruthyText(t)
                THEN \* continue
                     /\ idx' = idx + 1
                     /\ run_pc' = "loop"
                ELSE /\ run_pc' = "notes"
                     /\ UNCHANGED idx
    /\ UNCHANGED <<throttle_delay, video_items, selected_videos, all_notes, all_qas,
                   bundles, gen_calls, produced_notes, produced_qas, cooldowns>>
    /\ UNCHANGED <<genVars, enumVars>>

\* lines 171-180: the notes of the current video
RunNotes ==
    /\ run_pc = "notes"
    /\ gen_calls' = gen_calls \cup {[idx |-> idx, prompt |-> "SUMMARY_PROMPT"]}
    /\ \E r \in DefaultGeneration :
         IF r.raised
         THEN /\ run_pc' = "aborted"
              /\ UNCHANGED <<all_notes, produced_notes>>
         ELSE LET summary == r.value
                  title == selected_videos[idx + 1].title
              IN  /\ run_pc' = "qa"
                  /\ IF TruthyText(summary)
                     THEN /\ all_notes' = Put(all_notes, title, summary[1])
                          /\ produced_notes' =
                                produced_notes \cup {[idx |-> idx, text |-> summary[1]]}
                     ELSE UNCHANGED <<all_notes, produced_notes>>
    /\ UNCHANGED <<throttle_delay, video_items, selected_videos, idx, transcript,
                   cache, all_qas, bundles, fetched, produced_qas, cooldowns>>
    /\ UNCHANGED <<genVars, enumVars>>

\* lines 182-198: the Q&A of the current video, the transcript tab, the cooldown
RunQA ==
    /\ run_pc = "qa"
    /\ gen_calls' = gen_calls \cup {[idx |-> idx, prompt |-> "QA_PROMPT"]}
    /\ \E r \in DefaultGeneration :
         IF r.raised
         THEN /\ run_pc' = "aborted"
              /\ UNCHANGED <<all_qas, produced_qas, cooldowns, idx>>
         ELSE LET qas == r.value
                  title == selected_videos[idx + 1].title
              IN  /\ IF TruthyText(qas)
                     THEN /\ all_qas' = Put(all_qas, title, qas[1])
                          /\ produced_qas' =
                                produced_qas \cup {[idx |-> idx, text |-> qas[1]]}
                     ELSE UNCHANGED <<all_qas, produced_qas>>
                  /\ cooldowns' =
                        IF CooldownDue(throttle_delay, idx, Len(selected_videos))
                        THEN cooldowns \cup {idx} ELSE cooldowns
                  /\ idx' = idx + 1
                  /\ run_pc' = "loop"
    /\ UNCHANGED <<throttle_delay, video_items, selected_videos, transcript,
                   cache, all_notes, bundles, fetched, produced_notes>>
    /\ UNCHANGED <<genVars, enumVars>>

\* lines 200-210: "Download Everything"
RunDownload ==
    /\ run_pc = "loop"
    /\ ~LoopHas(idx, Len(selected_videos))
    /\ bundles' = [notes |-> IF DOMAIN all_notes # {} THEN Some(all_notes) ELSE None,
                   qas   |-> IF DOMAIN all_qas # {} THEN Some(all_qas) ELSE None]
    /\ run_pc' = "download"
    /\ UNCHANGED <<throttle_delay, video_items, selected_videos, idx, transcript,
                   cache, all_notes, all_qas,
                   fetched, gen_calls, produced_notes, produced_qas, cooldowns>>
    /\ UNCHANGED <<genVars, enumVars>>

-----------------------------------------------------------------------------
(* Specifications *)

\* The whole script, on a playlist URL and a playlist.
Init ==
    /\ GenIdle
    /\ \E url \in Urls, src \in Playlists :
         /\ playlist_url = url
         /\ pages = src
    /\ e_pc = "idle"
    /\ videos = <<>>
    /\ next_page_token = None
    /\ requests = <<>>
    /\ e_error = FALSE
    /\ \E throttle \in ThrottleChoices : RunEntry(throttle)

Next ==
    \/ RunFetchPlaylist
    \/ EnumStart
    \/ EnumPage
    \/ RunSelect
    \/ RunFetchTranscript
    \/ RunNotes
    \/ RunQA
    \/ RunDownload

Spec == Init /\ [][Next]_vars

\* The script is one thread that runs until it ends.
FairSpec == Spec /\ WF_vars(Next)

\* One call of generate_with_gemini with any arguments within the bounds.
GenInit ==
    /\ \E names \in SeqsUpTo(ArgModelNames, MaxModels), n \in 0..MaxRetries :
         GenEntry(names, n)
    /\ EnumIdle
    /\ RunIdle

GenSpec == GenInit /\ [][GenNext]_vars

\* One call of extract_playlist_items on any URL and any source within the bounds.
EnumInit ==
    /\ GenIdle
    /\ \E url \in Urls, src \in Sources : EnumEntry(url, src)
    /\ RunIdle

EnumSpec == EnumInit /\ [][EnumNext]_vars

-----------------------------------------------------------------------------
(* Properties of generate_with_gemini, checked under GenSpec *)

\* The statement-by-statement routine ends only in what generate_with_gemini,
\* taken as one step, can end in.
GenStepsAgree ==
    /\ g_pc = "returned" =>
          [raised |-> FALSE, value |-> g_result] \in generate_with_gemini(model_names, retries)
    /\ g_pc = "raised" =>
          [raised |-> TRUE, value |-> None] \in generate_with_gemini(model_names, retries)

\* r is t without its leading and trailing white space
IsTrimOf(r, t) ==
    \E i \in 1..(Len(t) + 1), j \in 0..Len(t) :
        /\ r = SubSeq(t, i, j)
        /\ \A k \in 1..Len(t) : (k < i \/ k > j) => IsSpace(t[k])
        /\ r # <<>> => ~IsSpace(r[1]) /\ ~IsSpace(r[Len(r)])

\* C1: the first invocation that succeeds ends the routine: the routine has
\* returned the response text, trimmed, and takes no further step, so that no
\* later attempt and no later model is invoked.
C1_FirstSuccessReturns ==
    /\ last_call.kind = "ok" =>
          /\ g_pc = "returned"
          /\ g_result # None
          /\ IsTrimOf(g_result[1], last_call.text)
    /\ g_pc = "returned" => ~ENABLED GenNext

\* The first of two models is rate-limited on its first attempt and answers
\* " b\n" on its second: "b" is returned and the second model was not invoked.
C1_Witness ==
    /\ g_pc = "returned"
    /\ Len(model_names) = 2
    /\ calls_to = <<1, 1>>
    /\ sleep_calls = 1
    /\ last_call = [kind |-> "ok", text |-> <<" ", "b", "\n">>]
    /\ g_result = Some(<<"b">>)

\* C2: one call makes at most len(model_names) * retries invocations, and
\* invokes the models in list order only.
C2_InvocationBound ==
    /\ Len(calls_to) <= Len(model_names) * retries
    /\ \A i, j \in 1..Len(calls_to) : i <= j => calls_to[i] <= calls_to[j]

\* Two models, three attempts each, all six invocations made.
C2_Witness ==
    /\ g_pc = "returned"
    /\ Len(model_names) = 2
    /\ retries = 3
    /\ calls_to = <<1, 1, 1, 2, 2, 2>>

\* The current model has been left after failing every attempt with a rate-limit
\* signal that carried the delay d.
RateLimitedThroughout(d) ==
    /\ g_pc = "model_loop"
    /\ model_idx >= 1
    /\ last_call.kind = "rate"
    /\ cur_delays = {d}
    /\ d # <<>>

\* C3: a model that fails every attempt with a rate-limit signal of delay d is
\* attempted exactly retries times and waited for d * (retries - 1) seconds in
\* total before the routine moves on.
C3_WaitsBetweenAttempts ==
    \A d \in {e.delay : e \in ErrStrs} :
        RateLimitedThroughout(d) =>
            /\ cur_attempts = retries
            /\ cur_wait = ParseInt(d) * (retries - 1)

\* C4: when every invocation fails with a non-rate-limit error, the routine
\* returns None after one invocation of each model, in order, and no wait.
C4_OneAttemptPerFailingModel ==
    (g_pc = "returned" /\ kinds_seen = {"other"}) =>
        /\ g_result = None
        /\ calls_to = [i \in 1..Len(model_names) |-> i]
        /\ sleep_calls = 0

\* Two models, both failing with a non-rate-limit error.
C4_Witness ==
    /\ g_pc = "returned"
    /\ kinds_seen = {"other"}
    /\ Len(model_names) = 2
    /\ retries = 3
    /\ calls_to = <<1, 2>>

\* C5: no exception leaves generate_with_gemini, whichever of its steps fails.
C5_NeverRaises == g_pc # "raised"

-----------------------------------------------------------------------------
(* Properties of extract_playlist_items, checked under EnumSpec *)

RECURSIVE Flatten(_)
Flatten(src) == IF src = <<>> THEN <<>> ELSE Head(src) \o Flatten(Tail(src))

\* one request a page, the first with no token, each later one with the token
\* the previous response carried
RequestsInTurn ==
    requests = [k \in 1..Len(pages) |-> IF k = 1 THEN None ELSE Some(k)]

\* the listing ended with a result and without a reported failure
Listed == e_pc = "returned" /\ ~e_error

Complete(item) ==
    /\ item.videoId \notin {None, Some("")}
    /\ item.title \notin {None, Some("")}

\* C7 as stated: a source of N items yields exactly N entries in source order,
\* by one request a page, each passing the previous token, none after the last.
C7_ReturnsEveryItem ==
    Listed =>
        LET items == Flatten(pages)
        IN  /\ Len(videos) = Len(items)
            /\ \A i \in 1..Len(videos) :
                  /\ Some(videos[i].videoId) = items[i].videoId
                  /\ Some(videos[i].title) = items[i].title
            /\ RequestsInTurn
            /\ ~ENABLED EnumNext

\* C7 as amended: the entries returned are those of the items that have both a
\* videoId and a title, in source order; the requests are as stated.
C7_ReturnsEveryCompleteItem ==
    Listed =>
        LET items == SelectSeq(Flatten(pages), Complete)
        IN  /\ Len(videos) = Len(items)
            /\ \A i \in 1..Len(videos) :
                  /\ Some(videos[i].videoId) = items[i].videoId
                  /\ Some(videos[i].title) = items[i].title
            /\ RequestsInTurn
            /\ ~ENABLED EnumNext

\* Two pages of one item each, the first item without a title: one entry is
\* returned after two requests.
C7_Witness ==
    /\ Listed
    /\ Len(pages) = 2
    /\ Len(pages[1]) = 1 /\ Len(pages[2]) = 1
    /\ pages[1][1].title = None
    /\ Len(videos) = 1
    /\ requests = <<None, Some(2)>>

-----------------------------------------------------------------------------
(* Properties of the processing loop, checked under Spec and FairSpec *)

\* a transcript that is None or empty
Absent(t) == t = None \/ t = Some(<<>>)

Calls(i) ==
    { [idx |-> i, prompt |-> "SUMMARY_PROMPT"], [idx |-> i, prompt |-> "QA_PROMPT"] }

\* C6: a video whose transcript is absent triggers no call of
\* generate_with_gemini and adds nothing to all_notes or all_qas, and the loop
\* goes on past it.
C6_NoTranscriptNoGeneration ==
    /\ \A c \in gen_calls : ~Absent(fetched[c.idx + 1])
    /\ \A p \in produced_notes \cup produced_qas : ~Absent(fetched[p.idx + 1])
    /\ \A k \in (DOMAIN all_notes) \cup (DOMAIN all_qas) :
          \E i \in 1..Len(fetched) :
              ~Absent(fetched[i]) /\ selected_videos[i].title = k
    /\ \A i \in 1..Len(fetched) :
          Absent(fetched[i]) => idx >= i /\ run_pc \in {"loop", "notes", "qa", "download"}

\* A run of two videos: the first has an empty transcript and is skipped, the
\* second has one and both generations were called for it.
C6_Witness ==
    /\ run_pc = "download"
    /\ Len(fetched) = 2
    /\ fetched[1] = Some(<<>>)
    /\ ~Absent(fetched[2])
    /\ gen_calls = Calls(1)

\* C8 as stated: with a cooldown above 0 the loop sleeps after every selected
\* video but the last.
C8_CooldownAfterEveryVideoButLast ==
    (run_pc = "download" /\ throttle_delay > 0) =>
        cooldowns = {i \in 0..(Len(selected_videos) - 1) : i < Len(selected_videos) - 1}

\* C8 as amended: with a cooldown above 0 the loop sleeps after every selected
\* video but the last whose transcript is present, and after no other.
C8_CooldownAfterGeneratedVideoButLast ==
    (run_pc \in {"loop", "notes", "qa", "download"} /\ throttle_delay > 0) =>
        cooldowns = {i \in 0..(idx - 1) :
                        i < Len(selected_videos) - 1 /\ ~Absent(fetched[i + 1])}

\* Two videos with transcripts, a cooldown of 10: one sleep, after the first.
C8_Witness ==
    /\ run_pc = "download"
    /\ throttle_delay > 0
    /\ Len(selected_videos) = 2
    /\ ~Absent(fetched[1]) /\ ~Absent(fetched[2])
    /\ cooldowns = {0}

Values(d) == {d[k] : k \in DOMAIN d}

\* the selected videos are distinct videos
DistinctVideos ==
    \A i, j \in 1..Len(selected_videos) :
        i # j => selected_videos[i].videoId # selected_videos[j].videoId

\* C9: at the end of a run over distinct videos, all_notes holds the notes of
\* every video whose notes generation returned a text, and all_qas the Q&A
\* likewise, equal titles or not, and these are the bundles offered.
C9_BundlesHoldEveryResult ==
    (run_pc = "download" /\ DistinctVideos) =>
        /\ \A p \in produced_notes : p.text \in Values(all_notes)
        /\ \A p \in produced_qas : p.text \in Values(all_qas)
        /\ produced_notes # {} => bundles.notes = Some(all_notes)
        /\ produced_qas # {} => bundles.qas = Some(all_qas)

\* every selected video was reached, and both generations were called for each
\* one that has a transcript
EveryVideoProcessed ==
    /\ Len(fetched) = Len(selected_videos)
    /\ \A i \in 1..Len(fetched) : ~Absent(fetched[i]) => Calls(i - 1) \subseteq gen_calls

\* C10: once the loop has started, whatever fails, the run reaches "Download
\* Everything" having reached every selected video and having called the Q&A
\* generation of every video with a transcript, failed notes or not.
C10_RunCompletes ==
    (run_pc = "loop") ~> (run_pc = "download" /\ EveryVideoProcessed)

\* Two videos with transcripts; both generations of the first failed; the second
\* was processed and the run reached the end.
C10_Witness ==
    /\ run_pc = "download"
    /\ Len(selected_videos) = 2
    /\ ~Absent(fetched[1]) /\ ~Absent(fetched[2])
    /\ gen_calls = Calls(0) \cup Calls(1)
    /\ \A p \in produced_notes \cup produced_qas : p.idx = 1
    /\ produced_notes # {}

====
